---- MODULE Spec2Model ----
(***************************************************************************)
(* State-machine model of build.py, the Jellyfin packaging build wrapper.  *)
(*                                                                         *)
(* One run of the script is one behaviour: the command line (sys.argv) and *)
(* the loaded build.yaml are fixed in the initial state, every module-level*)
(* step and every os.system() call of the selected build function is one   *)
(* action.  Strings that the script inspects character by character (the   *)
(* Jellyfin version) are sequences of one-character strings; other strings *)
(* (image names, architectures) are sequences of opaque tokens, so that    *)
(* f-string interpolation is sequence concatenation.                       *)
(***************************************************************************)
EXTENDS Integers, Sequences, FiniteSets, TLC

(***************************************************************************)
(* Bounds of the model                                                     *)
(***************************************************************************)
\* largest number of architectures in the docker archmaps of build.yaml
MaxArchs == 2
\* longest generated version string on the command line
MaxVerLen == 2
\* largest number of external commands that exit non-zero in one run
MaxFailures == 1

(***************************************************************************)
(* Strings                                                                 *)
(***************************************************************************)
Range(s) == {s[i] : i \in 1..Len(s)}

\* Python None, for the optional arguments
None == "None"

\* a version variable that is not bound yet
Unbound == <<"unbound">>

\* exit_code while the script is still running
Running == -1

\* the literal "master"
Master == <<"m", "a", "s", "t", "e", "r">>

\* the examples of usage(): a stable tag name and a date-to-the-hour version
ExampleStable == <<"v", "1", "0", ".", "9", ".", "0">>
ExampleUnstable == <<"2", "0", "2", "4", "0", "2", "1", "6", "0", "0">>

VersionAlphabet == {"v", "1", "."}

RECURSIVE StringsUpTo(_)
StringsUpTo(n) ==
    IF n = 0 THEN {<<>>}
    ELSE LET shorter == StringsUpTo(n - 1)
         IN  shorter \cup {Append(s, c) : s \in shorter, c \in VersionAlphabet}

\* the version strings given on the command line
Versions == StringsUpTo(MaxVerLen) \cup {Master, ExampleStable, ExampleUnstable}

\* str.replace(old, ""): every occurrence of the one-character string old is
\* removed, wherever it stands
RECURSIVE ReplaceAll(_, _)
ReplaceAll(s, old) ==
    IF s = <<>> THEN <<>>
    ELSE IF Head(s) = old THEN ReplaceAll(Tail(s), old)
         ELSE <<Head(s)>> \o ReplaceAll(Tail(s), old)

\* str.replace(old, "", 1): only the first occurrence is removed
RECURSIVE ReplaceFirst(_, _)
ReplaceFirst(s, old) ==
    IF s = <<>> THEN <<>>
    ELSE IF Head(s) = old THEN Tail(s)
         ELSE <<Head(s)>> \o ReplaceFirst(Tail(s), old)

\* jellyfin_version.replace("v", "")
StripFirstMarker(v) == ReplaceFirst(v, "v")
StripMarker(v) == ReplaceAll(v, "v")

\* "v" in jellyfin_version
StableMarkerAfterStrip(v) == "v" \in Range(StripMarker(v))
StableMarker(v) == "v" \in Range(v)

(***************************************************************************)
(* datetime.now().strftime(...)                                            *)
(***************************************************************************)
Digit(n) == CASE n = 0 -> "0" [] n = 1 -> "1" [] n = 2 -> "2" [] n = 3 -> "3"
              [] n = 4 -> "4" [] n = 5 -> "5" [] n = 6 -> "6" [] n = 7 -> "7"
              [] n = 8 -> "8" [] n = 9 -> "9"
Digits == {Digit(n) : n \in 0..9}

\* zero-padded decimal fields %m %d %H %M %S (two digits) and %Y (four)
Pad2(n) == <<Digit((n \div 10) % 10), Digit(n % 10)>>
Pad4(n) == <<Digit((n \div 1000) % 10), Digit((n \div 100) % 10)>> \o Pad2(n % 100)

\* the instants datetime.now() returns in the model
Clock == { [year |-> 2024, month |-> 2, day |-> 16, hour |-> 0, minute |-> 5, second |-> 9],
           [year |-> 2025, month |-> 11, day |-> 3, hour |-> 17, minute |-> 40, second |-> 31] }

\* strftime("%Y%m%d%H")
StrftimeHour(t) == Pad4(t.year) \o Pad2(t.month) \o Pad2(t.day) \o Pad2(t.hour)
\* strftime("%Y%m%d-%H%M%S")
StrftimeDate(t) == Pad4(t.year) \o Pad2(t.month) \o Pad2(t.day) \o <<"-">>
                   \o Pad2(t.hour) \o Pad2(t.minute) \o Pad2(t.second)

\* Autocorrect "master" to a dated version string
AutocorrectKeepsMaster(v, t) == v
Autocorrect(v, t) == IF v = Master THEN StrftimeHour(t) ELSE v

(***************************************************************************)
(* build.yaml                                                              *)
(***************************************************************************)
ArchNames == <<"amd64", "arm64", "armhf", "riscv64">>

\* one entry of an archmaps mapping, with every key a build function reads
\* (lines 60, 132, 140, 313-316)
ArchEntry(a) == [arch |-> a, PACKAGE_ARCH |-> a, DOTNET_ARCH |-> a,
                 QEMU_ARCH |-> a, IMAGE_ARCH |-> a]

\* an ordered mapping arch -> attributes, as a sequence of entries
ArchMap(n) == [i \in 1..n |-> ArchEntry(ArchNames[i])]

\* .keys() of an ordered mapping, in order and as a set
KeySeq(archmaps) == [i \in 1..Len(archmaps) |-> archmaps[i].arch]
Keys(archmaps) == {archmaps[i].arch : i \in 1..Len(archmaps)}

\* a configuration with n docker architectures; one build type per build
\* function, each with every key its build function reads, one whose build
\* function is unknown and one without any
Configuration(n) ==
    [bt \in {"debian", "fedora", "linux", "windows", "macos", "portable",
             "docker", "unknownfn", "nofn"} |->
        CASE bt = "debian" ->
               [build_function |-> "build_package_deb", imagename |-> "jellyfin-builder-debian",
                dockerfile |-> "debian/docker/Dockerfile", archmaps |-> ArchMap(2),
                releases |-> ("11" :> "11.9" @@ "12" :> "12.5"),
                cross_gcc |-> ("11" :> "10" @@ "12" :> "12")]
          [] bt = "fedora" ->
               [build_function |-> "build_package_rpm", imagename |-> "jellyfin-builder-fedora",
                dockerfile |-> "fedora/Dockerfile", archmaps |-> ArchMap(2),
                releases |-> ("39" :> "39")]
          [] bt = "linux" ->
               [build_function |-> "build_linux", imagename |-> "jellyfin-builder-linux",
                dockerfile |-> "portable/Dockerfile", archmaps |-> ArchMap(2),
                archivetypes |-> "targz"]
          [] bt = "windows" ->
               [build_function |-> "build_windows", imagename |-> "jellyfin-builder-windows",
                dockerfile |-> "portable/Dockerfile", archmaps |-> ArchMap(1),
                archivetypes |-> "targz"]
          [] bt = "macos" ->
               [build_function |-> "build_macos", imagename |-> "jellyfin-builder-macos",
                dockerfile |-> "portable/Dockerfile", archmaps |-> ArchMap(2),
                archivetypes |-> "targz"]
          [] bt = "portable" ->
               [build_function |-> "build_portable", imagename |-> "jellyfin-builder-portable",
                dockerfile |-> "portable/Dockerfile", archivetypes |-> "targz"]
          [] bt = "docker" ->
               [build_function |-> "build_docker", imagename |-> "jellyfin/jellyfin",
                dockerfile |-> "docker/Dockerfile", archmaps |-> ArchMap(n)]
          [] bt = "unknownfn" ->
               [build_function |-> "build_snap", imagename |-> "jellyfin-builder-snap"]
          [] bt = "nofn" ->
               [imagename |-> "jellyfin-builder-nofn"] ]

\* the keys of function_definitions
function_definitions ==
    {"build_package_deb", "build_package_rpm", "build_portable", "build_linux",
     "build_windows", "build_macos", "build_docker"}

(***************************************************************************)
(* Command lines                                                           *)
(***************************************************************************)
BuildTypeArgs == {"debian", "fedora", "linux", "windows", "macos", "portable",
                  "docker", "unknownfn", "nofn", "gentoo"}
ArchArgs == {"amd64", "mips"}
ReleaseArgs == {"12", "99"}

\* sys.argv[1:], zero to four arguments
ArgvSet ==
    {<<>>}
    \cup {<<v>> : v \in Versions}
    \cup {<<v, bt>> : v \in Versions, bt \in BuildTypeArgs}
    \cup {<<v, bt, a>> : v \in Versions, bt \in BuildTypeArgs, a \in ArchArgs}
    \cup {<<v, bt, a, r>> : v \in Versions, bt \in BuildTypeArgs, a \in ArchArgs,
                            r \in ReleaseArgs}

(***************************************************************************)
(* State                                                                   *)
(***************************************************************************)
VARIABLES
    configurations,   \* the loaded build.yaml
    argv,             \* sys.argv[1:]
    pc,               \* position of the script
    jellyfin_version, \* module global, and the parameter of the build function
    build_type,
    build_arch,
    build_version,
    output,           \* what log() and the interpreter printed, in order
    ops,              \* the external commands issued through os.system(), in order
    exit_code,        \* exit status of the run, Running while it runs
    changelog,        \* debian/changelog as build_package_deb wrote it
    docker            \* the locals of build_docker

vars == <<configurations, argv, pc, jellyfin_version, build_type, build_arch,
          build_version, output, ops, exit_code, changelog, docker>>

\* debian/changelog before build_package_deb writes it
NoChangelog == [written |-> FALSE, package_version |-> Unbound, release_comment |-> None]

\* locals of build_docker before the function is entered
NoDocker == [is_latest |-> FALSE, is_unstable |-> FALSE, version_suffix |-> FALSE,
             date |-> <<>>, images |-> <<>>, images_ghcr |-> <<>>, arch |-> 0, image |-> 0]

Init ==
    /\ configurations \in {Configuration(n) : n \in 1..MaxArchs}
    /\ argv \in ArgvSet
    /\ pc = "args"
    /\ jellyfin_version = Unbound
    /\ build_type = None
    /\ build_arch = None
    /\ build_version = None
    /\ output = <<>>
    /\ ops = <<>>
    /\ exit_code = Running
    /\ changelog = NoChangelog
    /\ docker = NoDocker

(***************************************************************************)
(* Output and exit                                                         *)
(***************************************************************************)
\* a printed message: what it reports, the field and the value it is about
\* and the set of valid alternatives it names
Message(msg, field, value, valid) ==
    [msg |-> msg, field |-> field, value |-> value, valid |-> valid]

\* usage(): the text names the valid build types
UsageWithoutTypes == Message("usage", "BUILD_TYPE", <<>>, {})
Usage == Message("usage", "BUILD_TYPE", <<>>, DOMAIN configurations)

\* exit(1) after printing the given lines
Exit1(lines) ==
    /\ output' = output \o lines
    /\ exit_code' = 1
    /\ pc' = "done"

\* the build function returned and the script reached its end
EndOfScript ==
    /\ exit_code' = 0
    /\ pc' = "done"

(***************************************************************************)
(* Module level: argument handling, validation and dispatch                *)
(***************************************************************************)
\* lines 460-467: sys.argv[1] is bound before sys.argv[2] is read, so with
\* one argument the version is bound when the IndexError is caught
ReadArgs ==
    /\ pc = "args"
    /\ IF Len(argv) < 2
       THEN /\ Exit1(<<Message("missing_arguments", "argv", <<>>, {}), Usage>>)
            /\ jellyfin_version' = IF Len(argv) = 1 THEN argv[1] ELSE jellyfin_version
            /\ UNCHANGED build_type
       ELSE /\ jellyfin_version' = argv[1]
            /\ build_type' = argv[2]
            /\ pc' = "check_type"
            /\ UNCHANGED <<output, exit_code>>
    /\ UNCHANGED <<configurations, argv, build_arch, build_version, ops, changelog, docker>>

\* lines 469-473
ValidateBuildType ==
    /\ pc = "check_type"
    /\ IF build_type \notin DOMAIN configurations
       THEN Exit1(<<Message("invalid_build_type", "BUILD_TYPE", <<build_type>>, {}), Usage>>)
       ELSE /\ pc' = "check_function"
            /\ UNCHANGED <<output, exit_code>>
    /\ UNCHANGED <<configurations, argv, jellyfin_version, build_type, build_arch,
                   build_version, ops, changelog, docker>>

\* lines 475-485: a missing build_function key (KeyError) and an unknown
\* build function (ValueError) are both caught
ValidateBuildFunction ==
    /\ pc = "check_function"
    /\ IF \/ "build_function" \notin DOMAIN configurations[build_type]
          \/ configurations[build_type].build_function \notin function_definitions
       THEN Exit1(<<Message("invalid_build_function", "build_function", <<build_type>>, {}),
                    Message("misconfiguration", "build_function", <<build_type>>, {})>>)
       ELSE /\ pc' = "optional_args"
            /\ UNCHANGED <<output, exit_code>>
    /\ UNCHANGED <<configurations, argv, jellyfin_version, build_type, build_arch,
                   build_version, ops, changelog, docker>>

\* lines 487-497
ParseOptionalArgs ==
    /\ pc = "optional_args"
    /\ build_arch' = IF Len(argv) >= 3 THEN argv[3] ELSE None
    /\ build_version' = IF Len(argv) >= 4 THEN argv[4] ELSE None
    /\ pc' = "autocorrect"
    /\ UNCHANGED <<configurations, argv, jellyfin_version, build_type, output, ops,
                   exit_code, changelog, docker>>

\* lines 499-502
AutocorrectMaster ==
    /\ pc = "autocorrect"
    /\ \E now \in Clock :
         /\ jellyfin_version' = Autocorrect(jellyfin_version, now)
         /\ output' = IF jellyfin_version = Master
                      THEN Append(output, Message("note_autocorrect", "JELLYFIN_VERSION",
                                                   jellyfin_version', {}))
                      ELSE output
    /\ pc' = "dispatch"
    /\ UNCHANGED <<configurations, argv, build_type, build_arch, build_version, ops,
                   exit_code, changelog, docker>>

\* lines 504-507: the call of the build function, which first logs what it
\* builds (lines 41, 117, 127, 169, 253, 282)
Dispatch ==
    /\ pc = "dispatch"
    /\ LET fn == configurations[build_type].build_function
       IN  /\ output' = Append(output, Message("building", fn, <<build_type>>, {}))
           /\ pc' = fn
    /\ UNCHANGED <<configurations, argv, jellyfin_version, build_type, build_arch,
                   build_version, ops, exit_code, changelog, docker>>

(***************************************************************************)
(* The container engine, reached through os.system()                       *)
(***************************************************************************)
Failed(o) == Cardinality({i \in 1..Len(o) : o[i].status # 0})

\* the exit statuses the next external command can have
ExitStatuses == IF Failed(ops) < MaxFailures THEN {0, 1} ELSE {0}

\* os.system(command): the command is issued and its exit status is dropped
System(op, ref, status) ==
    ops' = Append(ops, [op |-> op, ref |-> ref, status |-> status])

\* the "Invalid/unsupported arguments" line of the build functions
InvalidArguments(field, value, valid) ==
    Message("invalid_arguments", field, <<value>>, valid)

(***************************************************************************)
(* build_package_deb                                                       *)
(***************************************************************************)
\* lines 101-102
DebImageName ==
    <<configurations[build_type].imagename, "-">> \o jellyfin_version
    \o <<"_", build_arch, "-", build_type, "-", build_version>>

\* the same checks made after debian/changelog has been written
DebValidateAfterChangelog ==
    /\ pc = "build_package_deb"
    /\ changelog' = [written |-> TRUE,
                     package_version |-> StripMarker(jellyfin_version),
                     release_comment |-> IF StableMarker(jellyfin_version)
                                         THEN "release" ELSE "unstable"]
    /\ LET cfg == configurations[build_type]
       IN  IF build_version \notin DOMAIN cfg.releases
           THEN Exit1(<<InvalidArguments("BUILD_VERSION", build_version,
                                         DOMAIN cfg.releases)>>)
           ELSE IF build_arch \notin Keys(cfg.archmaps)
           THEN Exit1(<<InvalidArguments("BUILD_ARCH", build_arch, Keys(cfg.archmaps))>>)
           ELSE /\ pc' = "build_package_deb:changelog"
                /\ UNCHANGED <<output, exit_code>>
    /\ UNCHANGED <<configurations, argv, jellyfin_version, build_type, build_arch,
                   build_version, ops, docker>>

\* the same checks with the architecture looked up before the OS version
DebValidateArchFirst ==
    /\ pc = "build_package_deb"
    /\ LET cfg == configurations[build_type]
       IN  IF build_arch \notin Keys(cfg.archmaps)
           THEN Exit1(<<InvalidArguments("BUILD_ARCH", build_arch, Keys(cfg.archmaps))>>)
           ELSE IF build_version \notin DOMAIN cfg.releases
           THEN Exit1(<<InvalidArguments("BUILD_VERSION", build_version,
                                         DOMAIN cfg.releases)>>)
           ELSE /\ pc' = "build_package_deb:changelog"
                /\ UNCHANGED <<output, exit_code>>
    /\ UNCHANGED <<configurations, argv, jellyfin_version, build_type, build_arch,
                   build_version, ops, changelog, docker>>

\* lines 44-70: OS type, then OS version, then architecture
DebValidate ==
    /\ pc = "build_package_deb"
    /\ LET cfg == configurations[build_type]
       IN  IF build_type \notin DOMAIN configurations
           THEN Exit1(<<InvalidArguments("BUILD_TYPE", build_type, DOMAIN configurations)>>)
           ELSE IF "releases" \notin DOMAIN cfg
           THEN Exit1(<<InvalidArguments("KeyError", "releases", {})>>)
           ELSE IF build_version \notin DOMAIN cfg.releases
           THEN Exit1(<<InvalidArguments("BUILD_VERSION", build_version,
                                         DOMAIN cfg.releases)>>)
           ELSE IF "archmaps" \notin DOMAIN cfg
           THEN Exit1(<<InvalidArguments("KeyError", "archmaps", {})>>)
           ELSE IF build_arch \notin Keys(cfg.archmaps)
           THEN Exit1(<<InvalidArguments("BUILD_ARCH", build_arch, Keys(cfg.archmaps))>>)
           ELSE /\ pc' = "build_package_deb:changelog"
                /\ UNCHANGED <<output, exit_code>>
    /\ UNCHANGED <<configurations, argv, jellyfin_version, build_type, build_arch,
                   build_version, ops, changelog, docker>>

\* lines 72-99: the release comment is chosen from the unstripped version,
\* the version is stripped and debian/changelog is written
DebChangelog ==
    /\ pc = "build_package_deb:changelog"
    /\ jellyfin_version' = StripMarker(jellyfin_version)
    /\ changelog' = [written |-> TRUE,
                     package_version |-> jellyfin_version',
                     release_comment |-> IF StableMarker(jellyfin_version)
                                         THEN "release" ELSE "unstable"]
    /\ pc' = "build_package_deb:build"
    /\ UNCHANGED <<configurations, argv, build_type, build_arch, build_version, output,
                   ops, exit_code, docker>>

\* lines 104-107
DebBuild ==
    /\ pc = "build_package_deb:build"
    /\ \E status \in ExitStatuses : System("build", DebImageName, status)
    /\ pc' = "build_package_deb:run"
    /\ UNCHANGED <<configurations, argv, jellyfin_version, build_type, build_arch,
                   build_version, output, exit_code, changelog, docker>>

\* lines 108-110, and the return to the end of the script
DebRun ==
    /\ pc = "build_package_deb:run"
    /\ \E status \in ExitStatuses : System("run", DebImageName, status)
    /\ EndOfScript
    /\ UNCHANGED <<configurations, argv, jellyfin_version, build_type, build_arch,
                   build_version, output, changelog, docker>>

(***************************************************************************)
(* build_package_rpm                                                       *)
(***************************************************************************)
\* lines 113-120: the body is "pass"
BuildPackageRpm ==
    /\ pc = "build_package_rpm"
    /\ EndOfScript
    /\ UNCHANGED <<configurations, argv, jellyfin_version, build_type, build_arch,
                   build_version, output, ops, changelog, docker>>

(***************************************************************************)
(* build_linux, build_windows, build_macos: the same three steps           *)
(***************************************************************************)
\* lines 150-151, 192-193, 234-235
ArchiveImageName ==
    <<configurations[build_type].imagename, "-">> \o jellyfin_version
    \o <<"_", build_arch, "-", build_type>>

\* the same steps without the architecture lookup
ArchiveValidateUnchecked(fn) ==
    /\ pc = fn
    /\ jellyfin_version' = StripMarker(jellyfin_version)
    /\ pc' = fn \o ":build"
    /\ UNCHANGED <<configurations, argv, build_type, build_arch, build_version, output,
                   ops, exit_code, changelog, docker>>

\* lines 130-145, 172-187, 214-229: the architecture is looked up, then the
\* version is stripped
ArchiveValidate(fn) ==
    /\ pc = fn
    /\ LET cfg == configurations[build_type]
       IN  IF "archmaps" \notin DOMAIN cfg
           THEN /\ Exit1(<<InvalidArguments("KeyError", "archmaps", {})>>)
                /\ UNCHANGED jellyfin_version
           ELSE IF build_arch \notin Keys(cfg.archmaps)
           THEN /\ Exit1(<<InvalidArguments("BUILD_ARCH", build_arch, Keys(cfg.archmaps))>>)
                /\ UNCHANGED jellyfin_version
           ELSE /\ jellyfin_version' = StripMarker(jellyfin_version)
                /\ pc' = fn \o ":build"
                /\ UNCHANGED <<output, exit_code>>
    /\ UNCHANGED <<configurations, argv, build_type, build_arch, build_version, ops,
                   changelog, docker>>

\* lines 156-159, 198-201, 240-243
ArchiveBuild(fn) ==
    /\ pc = fn \o ":build"
    /\ \E status \in ExitStatuses : System("build", ArchiveImageName, status)
    /\ pc' = fn \o ":run"
    /\ UNCHANGED <<configurations, argv, jellyfin_version, build_type, build_arch,
                   build_version, output, exit_code, changelog, docker>>

\* lines 160-162, 202-204, 244-246, and the return to the end of the script
ArchiveRun(fn) ==
    /\ pc = fn \o ":run"
    /\ \E status \in ExitStatuses : System("run", ArchiveImageName, status)
    /\ EndOfScript
    /\ UNCHANGED <<configurations, argv, jellyfin_version, build_type, build_arch,
                   build_version, output, changelog, docker>>

LinuxValidate == ArchiveValidate("build_linux")
LinuxBuild == ArchiveBuild("build_linux")
LinuxRun == ArchiveRun("build_linux")

WindowsValidate == ArchiveValidate("build_windows")
WindowsBuild == ArchiveBuild("build_windows")
WindowsRun == ArchiveRun("build_windows")

MacosValidate == ArchiveValidate("build_macos")
MacosBuild == ArchiveBuild("build_macos")
MacosRun == ArchiveRun("build_macos")

(***************************************************************************)
(* build_portable                                                          *)
(***************************************************************************)
\* lines 261-264
PortableImageName ==
    <<configurations[build_type].imagename, "-">> \o jellyfin_version
    \o <<"_", build_type>>

\* lines 253-267: no argument is checked
PortablePrepare ==
    /\ pc = "build_portable"
    /\ jellyfin_version' = StripMarker(jellyfin_version)
    /\ pc' = "build_portable:build"
    /\ UNCHANGED <<configurations, argv, build_type, build_arch, build_version, output,
                   ops, exit_code, changelog, docker>>

\* lines 269-272
PortableBuild ==
    /\ pc = "build_portable:build"
    /\ \E status \in ExitStatuses : System("build", PortableImageName, status)
    /\ pc' = "build_portable:run"
    /\ UNCHANGED <<configurations, argv, jellyfin_version, build_type, build_arch,
                   build_version, output, exit_code, changelog, docker>>

\* lines 273-275, and the return to the end of the script
PortableRun ==
    /\ pc = "build_portable:run"
    /\ \E status \in ExitStatuses : System("run", PortableImageName, status)
    /\ EndOfScript
    /\ UNCHANGED <<configurations, argv, jellyfin_version, build_type, build_arch,
                   build_version, output, changelog, docker>>

(***************************************************************************)
(* build_docker                                                            *)
(***************************************************************************)
\* line 286: the architectures of the docker build type, in the order of
\* the configuration; _build_arch is not consulted
architectures == KeySeq(configurations["docker"].archmaps)

\* lines 318-322: the image name of one architecture
DockerImageName(arch) ==
    <<configurations["docker"].imagename, ":">> \o jellyfin_version \o <<"-", arch>>
    \o (IF docker.version_suffix THEN <<".">> \o docker.date ELSE <<>>)

\* the image under the docker.io namespace instead
GhcrAsDockerIo(imagename) == <<"docker.io/">> \o imagename

\* line 342-343: the same image under the ghcr.io namespace
Ghcr(imagename) == <<"ghcr.io/">> \o imagename

\* lines 282-307: classification from the unstripped version, stripping,
\* the date suffix and the two empty lists
DockerSetup ==
    /\ pc = "build_docker"
    /\ \E now \in Clock :
         docker' = [is_latest |-> StableMarker(jellyfin_version),
                    is_unstable |-> ~StableMarker(jellyfin_version),
                    version_suffix |-> StableMarker(jellyfin_version),
                    date |-> StrftimeDate(now),
                    images |-> <<>>, images_ghcr |-> <<>>,
                    arch |-> 1, image |-> 1]
    /\ jellyfin_version' = StripMarker(jellyfin_version)
    /\ pc' = IF Len(architectures) = 0 THEN "build_docker:login" ELSE "build_docker:reset"
    /\ UNCHANGED <<configurations, argv, build_type, build_arch, build_version, output,
                   ops, exit_code, changelog>>

\* lines 324-331: reset of the qemu static image, first step of an iteration
DockerReset ==
    /\ pc = "build_docker:reset"
    /\ \E status \in ExitStatuses :
         System("run", <<"multiarch/qemu-user-static:register">>, status)
    /\ pc' = "build_docker:build"
    /\ UNCHANGED <<configurations, argv, jellyfin_version, build_type, build_arch,
                   build_version, output, exit_code, changelog, docker>>

\* lines 333-340: image build of the current architecture; the name is
\* recorded whatever the exit status
DockerBuild ==
    /\ pc = "build_docker:build"
    /\ LET imagename == DockerImageName(architectures[docker.arch])
       IN  /\ \E status \in ExitStatuses : System("build", imagename, status)
           /\ docker' = [docker EXCEPT !.images = Append(@, imagename)]
    /\ pc' = "build_docker:tag"
    /\ UNCHANGED <<configurations, argv, jellyfin_version, build_type, build_arch,
                   build_version, output, exit_code, changelog>>

\* a re-tag that builds the image again under the ghcr.io name
DockerTagByRebuild ==
    /\ pc = "build_docker:tag"
    /\ LET imagename == DockerImageName(architectures[docker.arch])
       IN  /\ \E status \in ExitStatuses : System("build", Ghcr(imagename), status)
           /\ docker' = [docker EXCEPT !.images_ghcr = Append(@, Ghcr(imagename)),
                                       !.arch = @ + 1]
    /\ pc' = IF docker.arch < Len(architectures)
             THEN "build_docker:reset" ELSE "build_docker:login"
    /\ UNCHANGED <<configurations, argv, jellyfin_version, build_type, build_arch,
                   build_version, output, exit_code, changelog>>

\* lines 342-345: re-tag for ghcr.io, end of the iteration
DockerTag ==
    /\ pc = "build_docker:tag"
    /\ LET imagename == DockerImageName(architectures[docker.arch])
       IN  /\ \E status \in ExitStatuses : System("tag", Ghcr(imagename), status)
           /\ docker' = [docker EXCEPT !.images_ghcr = Append(@, Ghcr(imagename)),
                                       !.arch = @ + 1]
    /\ pc' = IF docker.arch < Len(architectures)
             THEN "build_docker:reset" ELSE "build_docker:login"
    /\ UNCHANGED <<configurations, argv, jellyfin_version, build_type, build_arch,
                   build_version, output, exit_code, changelog>>

\* lines 347-348
DockerLogin ==
    /\ pc = "build_docker:login"
    /\ \E status \in ExitStatuses : System("login", <<>>, status)
    /\ pc' = IF Len(docker.images) = 0
             THEN "build_docker:push_ghcr" ELSE "build_docker:push"
    /\ UNCHANGED <<configurations, argv, jellyfin_version, build_type, build_arch,
                   build_version, output, exit_code, changelog, docker>>

\* lines 350-354: one iteration of the DockerHub push loop
DockerPush ==
    /\ pc = "build_docker:push"
    /\ \E status \in ExitStatuses : System("push", docker.images[docker.image], status)
    /\ docker' = [docker EXCEPT !.image = @ + 1]
    /\ pc' = IF docker.image < Len(docker.images)
             THEN "build_docker:push" ELSE "build_docker:push_ghcr"
    /\ UNCHANGED <<configurations, argv, jellyfin_version, build_type, build_arch,
                   build_version, output, exit_code, changelog>>

\* line 357: the loop iterates over ghcr_images, a name bound neither in
\* build_docker (the list is images_ghcr) nor at module level: NameError.
\* Nothing catches it, the interpreter prints the traceback and exits with
\* status 1; lines 358-428 are never executed.
DockerPushGhcr ==
    /\ pc = "build_docker:push_ghcr"
    /\ Exit1(<<Message("traceback", "NameError", <<"ghcr_images">>, {})>>)
    /\ UNCHANGED <<configurations, argv, jellyfin_version, build_type, build_arch,
                   build_version, ops, changelog, docker>>

(***************************************************************************)
(* The run                                                                 *)
(***************************************************************************)
Next ==
    \/ ReadArgs
    \/ ValidateBuildType
    \/ ValidateBuildFunction
    \/ ParseOptionalArgs
    \/ AutocorrectMaster
    \/ Dispatch
    \/ DebValidate
    \/ DebChangelog
    \/ DebBuild
    \/ DebRun
    \/ BuildPackageRpm
    \/ LinuxValidate
    \/ LinuxBuild
    \/ LinuxRun
    \/ WindowsValidate
    \/ WindowsBuild
    \/ WindowsRun
    \/ MacosValidate
    \/ MacosBuild
    \/ MacosRun
    \/ PortablePrepare
    \/ PortableBuild
    \/ PortableRun
    \/ DockerSetup
    \/ DockerReset
    \/ DockerBuild
    \/ DockerTag
    \/ DockerLogin
    \/ DockerPush
    \/ DockerPushGhcr

Spec == Init /\ [][Next]_vars

(***************************************************************************)
(* Vocabulary of the properties                                            *)
(***************************************************************************)
\* the build function fn was called in this run
Called(fn) == \E i \in 1..Len(output) : output[i].msg = "building" /\ output[i].field = fn

\* build_docker has run its setup
DockerStarted == Called("build_docker") /\ docker.arch >= 1

\* build_docker has left the build loop
DockerLoopDone ==
    /\ DockerStarted
    /\ pc \in {"build_docker:login", "build_docker:push", "build_docker:push_ghcr", "done"}

\* the commands of one kind issued so far, in order
Issued(op) == SelectSeq(ops, LAMBDA o : o.op = op)

\* a command of kind op was issued for the reference ref
IssuedFor(op, ref) == \E i \in 1..Len(ops) : ops[i].op = op /\ ops[i].ref = ref

\* number of docker architectures of the loaded configuration
NumArchs == Len(configurations["docker"].archmaps)

\* the raw version of the command line carries the release marker
RawStable == "v" \in Range(argv[1])

\* lines 366-416: the tag of each manifest class
ManifestTag(class) ==
    CASE class = "dated" -> jellyfin_version \o <<".">> \o docker.date
      [] class = "version" -> jellyfin_version
      [] class = "latest" -> <<"latest">>
      [] class = "unstable" -> <<"unstable">>

\* lines 372-414: the manifest name of a class in a registry
ManifestName(registry, class) ==
    <<registry, configurations["docker"].imagename, ":">> \o ManifestTag(class)

Registries == {"docker.io/", "ghcr.io/"}
ManifestClassNames == {"dated", "version", "latest", "unstable"}

\* the manifest classes for which a manifest create was issued
ManifestClassesCreated ==
    {c \in ManifestClassNames :
        \E r \in Registries : IssuedFor("manifest create", ManifestName(r, c))}

(***************************************************************************)
(* C1: a docker run that passes validation pushes each of its N images     *)
(* under the primary and under the ghcr.io reference and then creates and  *)
(* pushes manifests for both registries.  Stated on the finished run.      *)
(* Violated: the run stops at line 357.                                    *)
(***************************************************************************)
C1_DockerRunReachesManifests ==
    (pc = "done" /\ DockerStarted) =>
        /\ Len(docker.images) = NumArchs
        /\ \A i \in 1..Len(docker.images) : IssuedFor("push", docker.images[i])
        /\ \A i \in 1..Len(docker.images_ghcr) : IssuedFor("push", docker.images_ghcr[i])
        /\ \A r \in Registries :
             /\ IssuedFor("manifest create", ManifestName(r, "version"))
             /\ IssuedFor("manifest push", ManifestName(r, "version"))

(***************************************************************************)
(* C2: a finished docker run has created exactly the manifest classes      *)
(* {dated, version, latest} for a stable request and {version, unstable}   *)
(* for an unstable one.  Violated: no manifest is ever created (C1).       *)
(***************************************************************************)
C2_ManifestClassSelection ==
    (pc = "done" /\ DockerStarted) =>
        ManifestClassesCreated = IF RawStable THEN {"dated", "version", "latest"}
                                              ELSE {"version", "unstable"}

(***************************************************************************)
(* C4: a run ends with exit status 0 only if every external command it     *)
(* issued exited with status 0.  Violated: the statuses are dropped.       *)
(***************************************************************************)
C4_ExitStatusReflectsFailures ==
    (pc = "done" /\ exit_code = 0) => \A i \in 1..Len(ops) : ops[i].status = 0

(***************************************************************************)
(* C5: a run whose build type is not a key of the configuration never      *)
(* calls a build function and issues no command, and ends with exit status *)
(* 1 after a usage text that names the valid build types.                  *)
(***************************************************************************)
C5_InvalidBuildType ==
    (Len(argv) >= 2 /\ argv[2] \notin DOMAIN configurations) =>
        /\ pc \in {"args", "check_type", "done"}
        /\ ops = <<>>
        /\ \A i \in 1..Len(output) : output[i].msg # "building"
        /\ pc = "done" =>
             /\ exit_code = 1
             /\ output[Len(output)].msg = "usage"
             /\ output[Len(output)].valid = DOMAIN configurations
             /\ output[1].msg = "invalid_build_type"

C5_Witness ==
    /\ pc = "done"
    /\ Len(argv) >= 2
    /\ argv[2] = "gentoo"
    /\ exit_code = 1
    /\ output[Len(output)].valid = DOMAIN configurations

(***************************************************************************)
(* C6                                                                      *)
(***************************************************************************)
\* the build type of the run has an architecture map that lacks the
\* requested architecture, and the build function fn was called
ArchRejected(fn) ==
    /\ Called(fn)
    /\ "archmaps" \in DOMAIN configurations[build_type]
    /\ build_arch \notin Keys(configurations[build_type].archmaps)

\* the run ended in the validation error that names the valid architectures
EndedInArchError ==
    /\ exit_code = 1
    /\ ops = <<>>
    /\ output[Len(output)].msg = "invalid_arguments"
    /\ output[Len(output)].field = "BUILD_ARCH"
    /\ output[Len(output)].valid = Keys(configurations[build_type].archmaps)

(***************************************************************************)
(* C6 as claimed: whichever of the six build functions is called, an       *)
(* architecture missing from the architecture map ends the run in the      *)
(* validation error naming the valid architectures.  Violated by           *)
(* build_package_rpm, build_docker and build_package_deb.                  *)
(***************************************************************************)
C6_Original ==
    \A fn \in {"build_package_deb", "build_package_rpm", "build_linux",
               "build_windows", "build_macos", "build_docker"} :
        (pc = "done" /\ ArchRejected(fn)) => EndedInArchError

(***************************************************************************)
(* C6 amended: for build_linux, build_windows and build_macos, and for     *)
(* build_package_deb when the OS version is a key of the releases map, an  *)
(* architecture missing from the architecture map ends the run with exit   *)
(* status 1 in the validation error naming the valid architectures, before *)
(* any command is issued.                                                  *)
(***************************************************************************)
C6_ArchValidation ==
    /\ \A fn \in {"build_linux", "build_windows", "build_macos"} :
         ArchRejected(fn) =>
            /\ pc \in {fn, "done"}
            /\ pc = "done" => EndedInArchError
    /\ (/\ ArchRejected("build_package_deb")
        /\ build_version \in DOMAIN configurations[build_type].releases) =>
            /\ pc \in {"build_package_deb", "done"}
            /\ pc = "done" => EndedInArchError

C6_Witness ==
    /\ pc = "done"
    /\ ArchRejected("build_linux")
    /\ build_arch = "mips"
    /\ EndedInArchError

(***************************************************************************)
(* C7: build_docker classifies the request as stable exactly when the raw  *)
(* version of the command line contains "v", and as unstable otherwise;    *)
(* build_package_deb chooses its release comment the same way; the marker  *)
(* is stripped afterwards: "v10.9.0" is stable with version "10.9.0",      *)
(* "2024021600" is unstable with version "2024021600".                     *)
(***************************************************************************)
C7_StableClassification ==
    /\ DockerStarted =>
         /\ docker.is_latest <=> RawStable
         /\ docker.is_unstable <=> ~RawStable
         /\ docker.version_suffix <=> RawStable
         /\ argv[1] = ExampleStable =>
              jellyfin_version = <<"1", "0", ".", "9", ".", "0">>
         /\ argv[1] = ExampleUnstable => jellyfin_version = ExampleUnstable
    /\ changelog.written =>
         /\ changelog.release_comment = (IF RawStable THEN "release" ELSE "unstable")
         /\ argv[1] = ExampleStable =>
              changelog.package_version = <<"1", "0", ".", "9", ".", "0">>

C7_Witness ==
    /\ DockerStarted
    /\ argv[1] = ExampleStable
    /\ docker.is_latest
    /\ ~docker.is_unstable
    /\ jellyfin_version = <<"1", "0", ".", "9", ".", "0">>

(***************************************************************************)
(* C8: when the raw version is "master", the version a build function      *)
(* works with is ten decimal digits (YYYYMMDDHH) and never "master", from  *)
(* the call on, and the request is classified unstable.                    *)
(***************************************************************************)
C8_MasterAutocorrected ==
    (Len(argv) >= 2 /\ argv[1] = Master) =>
        /\ (pc \notin {"args", "check_type", "check_function", "optional_args",
                       "autocorrect", "done"}
            \/ \E fn \in function_definitions : Called(fn)) =>
              /\ jellyfin_version # Master
              /\ Len(jellyfin_version) = 10
              /\ Range(jellyfin_version) \subseteq Digits
        /\ DockerStarted => (docker.is_unstable /\ ~docker.is_latest)
        /\ changelog.written => changelog.release_comment = "unstable"

C8_Witness ==
    /\ Len(argv) >= 2
    /\ argv[1] = Master
    /\ pc = "build_docker:reset"
    /\ docker.is_unstable
    /\ Len(jellyfin_version) = 10

(***************************************************************************)
(* C9: with N docker architectures, build_docker issues at most N image    *)
(* builds at any time and, once the build loop is left, exactly N, the     *)
(* i-th for the i-th architecture of the map; 2N distinct image names have *)
(* then been given, N without registry prefix through the builds and N     *)
(* under ghcr.io through N re-tags, which issue no build; when all these   *)
(* commands succeeded the 2N tags exist.                                   *)
(***************************************************************************)
C9_MultiArchBuild ==
    DockerStarted =>
        LET builds == Issued("build")
            tags == Issued("tag")
        IN  /\ Len(builds) <= NumArchs
            /\ Len(tags) <= Len(builds)
            /\ DockerLoopDone =>
                 /\ Len(builds) = NumArchs
                 /\ Len(tags) = NumArchs
                 /\ \A i \in 1..NumArchs :
                      /\ configurations["docker"].archmaps[i].arch \in Range(builds[i].ref)
                      /\ builds[i].ref = docker.images[i]
                      /\ builds[i].ref[1] # "ghcr.io/"
                      /\ tags[i].ref = docker.images_ghcr[i]
                      /\ tags[i].ref[1] = "ghcr.io/"
                 /\ Cardinality(Range(docker.images)) = NumArchs
                 /\ Cardinality(Range(docker.images_ghcr)) = NumArchs
                 /\ Cardinality(Range(docker.images) \cup Range(docker.images_ghcr))
                      = 2 * NumArchs
                 /\ (\A i \in 1..Len(ops) : ops[i].status = 0) =>
                      Cardinality({ops[i].ref : i \in {j \in 1..Len(ops) :
                                       ops[j].op \in {"build", "tag"}}}) = 2 * NumArchs

C9_Witness ==
    /\ pc = "build_docker:login"
    /\ DockerStarted
    /\ NumArchs = 2
    /\ Len(Issued("build")) = 2
    /\ Len(Issued("tag")) = 2
    /\ Len(docker.images) = 2
    /\ Len(docker.images_ghcr) = 2

(***************************************************************************)
(* C10: when exactly one image push of a multi-architecture docker run     *)
(* fails, the finished run has still pushed every other image and every    *)
(* manifest and has reported the failure.  Violated: after the DockerHub   *)
(* pushes the run stops at line 357 (C1), and no report is printed.        *)
(***************************************************************************)
C10_GracefulDegradation ==
    (/\ pc = "done"
     /\ DockerStarted
     /\ NumArchs >= 2
     /\ Cardinality({i \in 1..Len(ops) : ops[i].op = "push" /\ ops[i].status # 0}) = 1) =>
        /\ \A i \in 1..Len(docker.images) : IssuedFor("push", docker.images[i])
        /\ \A i \in 1..Len(docker.images_ghcr) : IssuedFor("push", docker.images_ghcr[i])
        /\ \A r \in Registries : IssuedFor("manifest push", ManifestName(r, "version"))
        /\ \E i \in 1..Len(output) : output[i].msg = "push_failed"

(***************************************************************************)
(* C11: a build type whose build function is missing, unknown or the       *)
(* unimplemented build_package_rpm ends the run with exit status 1 and the *)
(* misconfiguration message, and no run ends with exit status 0 without    *)
(* having issued an image build.  Violated: build_package_rpm is a key of  *)
(* function_definitions, is called, does nothing and the run ends with 0.  *)
(***************************************************************************)
C11_Misconfiguration ==
    /\ (/\ pc = "done"
        /\ build_type \in DOMAIN configurations
        /\ \/ "build_function" \notin DOMAIN configurations[build_type]
           \/ configurations[build_type].build_function \notin function_definitions
           \/ configurations[build_type].build_function = "build_package_rpm") =>
          /\ exit_code = 1
          /\ \E i \in 1..Len(output) : output[i].msg = "misconfiguration"
    /\ (pc = "done" /\ exit_code = 0) => Len(Issued("build")) >= 1

(***************************************************************************)
(* C12                                                                     *)
(***************************************************************************)
\* the build function of the run has stripped the marker from its version
Normalized ==
    \/ DockerStarted
    \/ changelog.written
    \/ pc \in {"build_linux:build", "build_linux:run", "build_windows:build",
               "build_windows:run", "build_macos:build", "build_macos:run",
               "build_portable:build", "build_portable:run"}
    \/ pc = "done" /\ ops # <<>>

(***************************************************************************)
(* C12: normalization is idempotent: stripping the marker from a version   *)
(* that a build function has already stripped leaves it unchanged.         *)
(***************************************************************************)
C12_NormalizationIdempotent ==
    Normalized => StripMarker(jellyfin_version) = jellyfin_version

C12_Witness ==
    /\ Normalized
    /\ argv[1] = <<"v", "v">>
    /\ jellyfin_version = <<>>
    /\ pc = "build_portable:build"

(***************************************************************************)
(* C13: once an image build of build_docker has exited non-zero, no        *)
(* further command is issued: the failed build stays the last command of   *)
(* the run.  Violated: the exit status is dropped and the loop goes on     *)
(* with the re-tag, the next architecture, the login and the pushes.       *)
(***************************************************************************)
C13_FailFast ==
    DockerStarted =>
        \A i \in 1..Len(ops) :
            (ops[i].op = "build" /\ ops[i].status # 0) => i = Len(ops)

(***************************************************************************)
(* C14                                                                     *)
(***************************************************************************)
\* the messages that report a failed check
ErrorMessages == {"missing_arguments", "invalid_build_type", "invalid_build_function",
                  "invalid_arguments"}

\* the failed checks reported in this run, in order
ReportedErrors == SelectSeq(output, LAMBDA m : m.msg \in ErrorMessages)

\* build_package_deb was called with an architecture and an OS version that
\* are both missing from the maps of the build type
DebBothInvalid ==
    /\ Called("build_package_deb")
    /\ build_arch \notin Keys(configurations[build_type].archmaps)
    /\ build_version \notin DOMAIN configurations[build_type].releases

(***************************************************************************)
(* C14 as claimed: the checks run in the order build type, build function, *)
(* architecture, OS version, so that a .deb request with an invalid        *)
(* architecture and an invalid OS version reports the architecture.        *)
(* Violated: build_package_deb looks up the OS version first.              *)
(***************************************************************************)
C14_Original ==
    (pc = "done" /\ DebBothInvalid) =>
        /\ Len(ReportedErrors) = 1
        /\ ReportedErrors[1].field = "BUILD_ARCH"

(***************************************************************************)
(* C14 amended: the checks run in the order build type, build function,    *)
(* then, inside the build function, OS version (build_package_deb only)    *)
(* and architecture; the run stops at the first failing check, so at most  *)
(* one failed check is reported, and a .deb request with an invalid        *)
(* architecture and an invalid OS version reports the OS version.          *)
(***************************************************************************)
C14_ValidationOrder ==
    /\ Len(ReportedErrors) <= 1
    /\ Len(ReportedErrors) = 1 => (pc = "done" /\ exit_code = 1)
    /\ (pc = "done" /\ Len(argv) >= 2) =>
         IF argv[2] \notin DOMAIN configurations
         THEN ReportedErrors[1].msg = "invalid_build_type"
         ELSE IF \/ "build_function" \notin DOMAIN configurations[argv[2]]
                 \/ configurations[argv[2]].build_function \notin function_definitions
         THEN ReportedErrors[1].msg = "invalid_build_function"
         ELSE IF Called("build_package_deb")
         THEN IF build_version \notin DOMAIN configurations[build_type].releases
              THEN ReportedErrors[1].field = "BUILD_VERSION"
              ELSE IF build_arch \notin Keys(configurations[build_type].archmaps)
              THEN ReportedErrors[1].field = "BUILD_ARCH"
              ELSE ReportedErrors = <<>>
         ELSE TRUE

C14_Witness ==
    /\ pc = "done"
    /\ DebBothInvalid
    /\ build_arch = "mips"
    /\ build_version = "99"
    /\ Len(ReportedErrors) = 1
    /\ ReportedErrors[1].field = "BUILD_VERSION"

(***************************************************************************)
(* C17: the stripped version of a build function is the raw version        *)
(* without its leading "v", every other character kept, a later "v"        *)
(* included.  Violated: replace("v", "") removes every "v".                *)
(***************************************************************************)
C17_StripsOnlyPrefix ==
    (Normalized /\ argv[1] # Master) =>
        jellyfin_version = (IF argv[1] # <<>> /\ Head(argv[1]) = "v"
                            THEN Tail(argv[1]) ELSE argv[1])

(***************************************************************************)
(* C18                                                                     *)
(***************************************************************************)
\* the run ended in one "Invalid/unsupported arguments" error
EndedInArgumentError ==
    /\ exit_code = 1
    /\ Len(ReportedErrors) = 1
    /\ ReportedErrors[1].msg = "invalid_arguments"

(***************************************************************************)
(* C18: a finished run of a build function that needs an architecture      *)
(* (deb, rpm, linux, windows, macos) without one, or of one that needs an  *)
(* OS version (deb, rpm) without one or with one missing from the releases *)
(* map, ended in a validation error with exit status 1; a finished run of  *)
(* build_portable or build_docker reported no argument error.  Violated:   *)
(* build_package_rpm checks nothing (C11).                                 *)
(***************************************************************************)
C18_RequiredArguments ==
    pc = "done" =>
        /\ \A fn \in {"build_package_deb", "build_package_rpm", "build_linux",
                      "build_windows", "build_macos"} :
             (Called(fn) /\ build_arch = None) => EndedInArgumentError
        /\ \A fn \in {"build_package_deb", "build_package_rpm"} :
             (/\ Called(fn)
              /\ build_version \notin DOMAIN configurations[build_type].releases) =>
                EndedInArgumentError
        /\ \A fn \in {"build_portable", "build_docker"} :
             Called(fn) => ReportedErrors = <<>>

(***************************************************************************)
(* C19                                                                     *)
(***************************************************************************)
IsPrefix(s, t) == Len(s) <= Len(t) /\ \A i \in 1..Len(s) : s[i] = t[i]

\* between two iterations of the build loop and after it, both lists hold one
\* name per processed architecture, the i-th ghcr.io name being "ghcr.io/"
\* followed by the i-th DockerHub name
ParallelLists ==
    DockerStarted =>
        /\ \A i \in 1..Len(docker.images_ghcr) :
             /\ i <= Len(docker.images)
             /\ docker.images_ghcr[i] = <<"ghcr.io/">> \o docker.images[i]
        /\ pc # "build_docker:tag" =>
             /\ Len(docker.images) = docker.arch - 1
             /\ Len(docker.images_ghcr) = docker.arch - 1

\* a step only appends to the two lists
AppendOnly ==
    /\ IsPrefix(docker.images, docker'.images)
    /\ IsPrefix(docker.images_ghcr, docker'.images_ghcr)

(***************************************************************************)
(* C19: at the end of every iteration of the build loop of build_docker    *)
(* the two lists have the length of the number of architectures processed, *)
(* the i-th ghcr.io reference is "ghcr.io/" followed by the i-th DockerHub *)
(* reference, and the lists are only ever appended to.                     *)
(***************************************************************************)
C19_ParallelLists == []ParallelLists /\ [][AppendOnly]_vars

C19_Witness ==
    /\ pc = "build_docker:reset"
    /\ docker.arch = 2
    /\ Len(docker.images) = 1
    /\ Len(docker.images_ghcr) = 1
    /\ docker.images_ghcr[1] = <<"ghcr.io/">> \o docker.images[1]

(***************************************************************************)
(* C20: a run that reports a failed check (missing arguments, invalid      *)
(* build type, invalid build function, invalid OS version or architecture) *)
(* has issued no command and has not written debian/changelog.             *)
(***************************************************************************)
C20_ValidationBeforeEffects ==
    ReportedErrors # <<>> =>
        /\ ops = <<>>
        /\ ~changelog.written
        /\ docker = NoDocker

C20_Witness ==
    /\ pc = "done"
    /\ Called("build_package_deb")
    /\ Len(ReportedErrors) = 1
    /\ ReportedErrors[1].field = "BUILD_ARCH"
    /\ ops = <<>>
    /\ ~changelog.written

(***************************************************************************)
(* C21                                                                     *)
(***************************************************************************)
\* the build functions that build one artifact
SingleTargetFunctions == {"build_package_deb", "build_package_rpm", "build_linux",
                          "build_windows", "build_macos", "build_portable"}

\* the run reported a failed image build
BuildErrorReported == \E i \in 1..Len(output) : output[i].msg = "build_error"

(***************************************************************************)
(* C21: a finished run of a single-target build function that reported no  *)
(* failed check has issued one image build and then one container run of   *)
(* the image of that name and nothing else; when the image build exited    *)
(* non-zero, the run reported a build error and did not end with exit      *)
(* status 0.  Violated: build_package_rpm issues nothing (C11), and the    *)
(* exit status of the image build is dropped (C4).                         *)
(***************************************************************************)
C21_SingleTargetBuild ==
    \A fn \in SingleTargetFunctions :
        (pc = "done" /\ Called(fn) /\ ReportedErrors = <<>>) =>
            /\ Len(Issued("build")) = 1
            /\ ops[1].op = "build"
            /\ ops[1].status = 0 =>
                 /\ Len(ops) = 2
                 /\ ops[2].op = "run"
                 /\ ops[2].ref = ops[1].ref
            /\ ops[1].status # 0 =>
                 /\ BuildErrorReported
                 /\ exit_code # 0

====
